---- MODULE Spec2Model ----
(***************************************************************************)
(* Session management of the admin dashboard: the cookie store, the axios  *)
(* client's response interceptor, AuthService (lib/auth) and AuthProvider  *)
(* (contexts/AuthContext).                                                 *)
(*                                                                         *)
(* One step of the model is one run-to-completion of the JavaScript event  *)
(* loop: a call up to its first await on the network, or the arrival of a  *)
(* response with every continuation it resumes (interceptor, AuthService   *)
(* handler, AuthProvider handler), up to the next await on the network.    *)
(* Responses of requests in flight arrive in any order.                    *)
(***************************************************************************)
EXTENDS Naturals, Sequences, FiniteSets

\* ------------------------------------------------------------------ bounds

\* Requests of AuthProvider that may be in flight at once.
MaxInflight == 2

\* Requests that may be in flight at once when AuthService is called directly.
MaxCalls == 1

\* ------------------------------------------------------------ value domains

\* An optional value (T | null): the empty set is null, {v} holds v.
Null == {}
Some(v) == {v}

\* An absent optional field of a user record (phone?: string).
Undefined == "undefined"

Roles == {"admin", "customer"}
Phones == {Undefined, "+1-555-0000"}
\* AdminUser, cut to the field the code reads (role) and one optional field.
Users == [role : Roles, phone : Phones]

Tokens == {"t1", "t2"}
RefreshTokens == {"r1", "r2"}

\* Backend error messages (the body's "error" member); NoError: the member is
\* missing, or there is no response at all.
NoError == ""
BackendErrors == {"Invalid credentials"}

\* Response statuses: none (network error, timeout: error.response is undefined),
\* 401, another error status.
NoResponse == 0
Unauthorized == 401
ServerError == 500
ErrorStatuses == {NoResponse, Unauthorized, ServerError}
\* A 2xx response.
Ok == 200
Statuses == ErrorStatuses \cup {Ok}

\* A failed request as the response interceptor and the catch blocks see it.
ErrorResponses ==
    {r \in [status : ErrorStatuses, error : {NoError} \cup BackendErrors] :
        r.status = NoResponse => r.error = NoError}

\* The data member of a successful login or register response: the backend
\* issues an access token with its refresh token.
AuthData ==
    {d \in [user : Users, token : Tokens, refreshToken : RefreshTokens] :
        d.token = "t1" <=> d.refreshToken = "r1"}

\* ------------------------------------------------------- JSON (de)serializer

\* A string is modelled as its sequence of lexical tokens, each a tuple.
OpenBrace == <<"{">>
CloseBrace == <<"}">>

\* JSON.stringify of a user: a member with value undefined is left out.
StringifyDropsPhone(u) == <<OpenBrace, <<"role", u.role>>, CloseBrace>>
Stringify(u) ==
    <<OpenBrace, <<"role", u.role>>>>
        \o (IF u.phone = Undefined THEN <<>> ELSE <<<<"phone", u.phone>>>>)
        \o <<CloseBrace>>

\* Whether JSON.parse accepts the text (it throws a SyntaxError otherwise).
WellFormedJson(s) ==
    /\ Len(s) >= 2
    /\ s[1] = OpenBrace
    /\ s[Len(s)] = CloseBrace
    /\ \A i \in 2..(Len(s) - 1) : Len(s[i]) = 2

\* The member named key of the parsed object, undefined when it has none.
Member(s, key) ==
    IF \E i \in 2..(Len(s) - 1) : s[i][1] = key
    THEN s[CHOOSE i \in 2..(Len(s) - 1) : s[i][1] = key][2]
    ELSE Undefined

\* JSON.parse of a well-formed text.
Parse(s) == [role |-> Member(s, "role"), phone |-> Member(s, "phone")]

\* Stored texts no setUser wrote: the empty string and a truncated object.
EmptyString == <<>>
Corrupt == <<OpenBrace, <<"role", "admin">>>>

\* ------------------------------------------------------------ the cookie jar

TOKEN_KEY == "admin_token"
USER_KEY == "admin_user"
REFRESH_TOKEN_KEY == "admin_refresh_token"
Keys == {TOKEN_KEY, USER_KEY, REFRESH_TOKEN_KEY}

\* A jar is a function from the names of the cookies it holds to their values.
EmptyJar == [k \in {} |-> ""]

\* Cookies.set, Cookies.get (undefined when absent, here Null), Cookies.remove
CookiesSet(jar, key, value) ==
    [k \in (DOMAIN jar) \cup {key} |-> IF k = key THEN value ELSE jar[k]]
CookiesGet(jar, key) == IF key \in DOMAIN jar THEN Some(jar[key]) ELSE Null
CookiesRemove(jar, key) == [k \in (DOMAIN jar) \ {key} |-> jar[k]]

\* ----------------------------------------------- AuthService: store access

setToken(jar, token) == CookiesSet(jar, TOKEN_KEY, token)

\* Cookies.get(TOKEN_KEY) || null: the empty string is falsy
getToken(jar) == {t \in CookiesGet(jar, TOKEN_KEY) : t # ""}

setRefreshToken(jar, refreshToken) == CookiesSet(jar, REFRESH_TOKEN_KEY, refreshToken)

getRefreshToken(jar) == {t \in CookiesGet(jar, REFRESH_TOKEN_KEY) : t # ""}

setUser(jar, u) == CookiesSet(jar, USER_KEY, Stringify(u))

getUserIgnoresSyntax(jar) ==
    {Parse(s) : s \in {x \in CookiesGet(jar, USER_KEY) : x # EmptyString}}
getUser(jar) ==
    {Parse(s) : s \in {x \in CookiesGet(jar, USER_KEY) :
                            x # EmptyString /\ WellFormedJson(x)}}

clearAuthKeepsRefresh(jar) == CookiesRemove(CookiesRemove(jar, TOKEN_KEY), USER_KEY)
clearAuth(jar) ==
    CookiesRemove(CookiesRemove(CookiesRemove(jar, TOKEN_KEY), USER_KEY),
                  REFRESH_TOKEN_KEY)

isAuthenticatedTokenOnly(jar) == getToken(jar) # Null
isAuthenticated(jar) == getToken(jar) # Null /\ getUser(jar) # Null

isAdmin(jar) == \E u \in getUser(jar) : u.role = "admin"

\* ------------------------------------------------------------------- state

VARIABLES
    cookies,        \* the browser's cookie jar (js-cookie)
    user,           \* AuthProvider: useState<AdminUser | null>
    isLoading,      \* AuthProvider: useState(true)
    error,          \* AuthProvider: useState<string | null>
    mounted,        \* whether AuthProvider's mount effect has run
    inflight,       \* requests awaiting their response, in issue order
    location,       \* the path the browser shows
    reloadPending,  \* window.location.href was assigned: a document load is due
    form,           \* ProfilePage: isEditing, formData, errors, isSaving
    last            \* what the last step did (for stating properties)

vars == <<cookies, user, isLoading, error, mounted, inflight, location, form,
          reloadPending, last>>

\* Messages
LoginFailed == "Login failed"
RegistrationFailed == "Registration failed"
ForgotFailed == "Failed to send reset email"
ResetFailed == "Failed to reset password"
RefreshFailed == "Token refresh failed"
GetUserFailed == "Failed to get user profile"
UpdateFailed == "Failed to update profile"
AccessDenied == "Access denied. Admin privileges required."
NoMessage == ""

LoginPath == "/auth/login"
DashboardPath == "/dashboard"
HomePath == "/"
NoPush == ""

\* The values an admin_user cookie may hold when the page loads.
StoredUserTexts == {Stringify(u) : u \in Users} \cup {EmptyString, Corrupt}

\* The jars a page load may find: each cookie absent (never set, removed,
\* expired on its own schedule) or holding a value.
JarOf(token, refreshToken, userText) ==
    [k \in {TOKEN_KEY : t \in token} \cup {REFRESH_TOKEN_KEY : r \in refreshToken}
            \cup {USER_KEY : x \in userText} |->
        IF k = TOKEN_KEY THEN CHOOSE t \in token : TRUE
        ELSE IF k = REFRESH_TOKEN_KEY THEN CHOOSE r \in refreshToken : TRUE
        ELSE CHOOSE x \in userText : TRUE]
Optional(S) == {Null} \cup {Some(v) : v \in S}
InitialJars ==
    {JarOf(t, r, x) : t \in Optional(Tokens \cup {""}), r \in Optional(RefreshTokens),
                      x \in Optional(StoredUserTexts)}

\* The record of a step: the operation, how far it got ("start": the request
\* is out, "pending": it awaits a further request, "ok": it resolved, "error":
\* it rejected), the message it rejected with, the request whose response the
\* step handled with that response, the payload of a successful response, and
\* the router.push it made. initAuth has no caller: its "error" is a failed
\* revalidation.
NoData == [user |-> Null, token |-> "", refreshToken |-> ""]
Step(op, outcome, message, handled, data, push) ==
    [op |-> op, outcome |-> outcome, message |-> message, handled |-> handled,
     data |-> data, push |-> push]
OkResponse == [status |-> Ok, error |-> NoError]
\* A response of which only the status matters to the code that handles it.
Bare(status) == [status |-> status, error |-> NoError]
Request(op) == [op |-> op]
RemoveAt(s, i) == SubSeq(s, 1, i - 1) \o SubSeq(s, i + 1, Len(s))

\* The response the step handled: of which request, with what status and
\* backend message. inflight is in the order of issue, so the i - 1 requests
\* before the i-th are older and still unanswered; the response is late when
\* the step before handled the response of a request issued after this one.
Handled(i, request, r) ==
    Some([request |-> request, status |-> r.status, error |-> r.error,
          older |-> i - 1,
          late |-> \E h \in last.handled : h.older >= i])

Awaiting(i, op) == i \in 1..Len(inflight) /\ inflight[i].op = op
CanSend == mounted /\ Len(inflight) < MaxInflight

\* ------------------------------------------------------------ the api client

\* api.interceptors.response, error branch: on a 401 remove the token and the
\* user cookie (not the refresh token) and assign window.location.href.
interceptorIgnores401(jar, status) == jar
interceptorKeepsUser(jar, status) ==
    IF status = Unauthorized THEN CookiesRemove(jar, TOKEN_KEY) ELSE jar
interceptorClearsAll(jar, status) ==
    IF status = Unauthorized THEN EmptyJar ELSE jar
interceptor(jar, status) ==
    IF status = Unauthorized
    THEN CookiesRemove(CookiesRemove(jar, TOKEN_KEY), USER_KEY)
    ELSE jar

Redirects(status) == status = Unauthorized

\* error.response?.data?.error || fallback
ErrorMessageAlwaysFallback(r, fallback) == fallback
ErrorMessageLeaksRaw(r, fallback) ==
    IF r.error # NoError THEN r.error ELSE "Network Error"
ErrorMessage(r, fallback) == IF r.error # NoError THEN r.error ELSE fallback

setErrorDropped(message) == Null

\* setError(error.message) in the catch blocks of login, register and
\* updateProfile: the error slot after it
setError(message) == Some(message)

\* What the interceptor does to the browser when a response of this status
\* arrives, whatever handles the response next.
Settled(status) ==
    /\ location' = IF Redirects(status) THEN LoginPath ELSE location
    /\ reloadPending' = (reloadPending \/ Redirects(status))

\* ------------------------------------------------------- the profile form

ProfilePath == "/profile"

\* Form fields are texts: sequences of one-character strings, so that trim()
\* and the two regular expressions of validateForm are computed, not assumed.
Digits == {"1", "2"}
NameTexts == {<<" ">>, <<"a">>}
EmailTexts == {<<>>, <<"a", "@", "b">>, <<"a", "@", "b", ".", "c">>}
PhoneTexts == {<<>>, <<"a">>, <<"+", "1", "-", "2">>}
FormData == [firstName : NameTexts, lastName : NameTexts, email : EmailTexts,
             phone : PhoneTexts]
FieldNames == {"firstName", "lastName", "email", "phone"}

\* text.trim() is the empty string
Blank(text) == \A i \in 1..Len(text) : text[i] = " "
NonSpace(c) == c # " "
\* /\S+@\S+\.\S+/.test(text): unanchored, so one non-space character before
\* the @ and one after the dot are enough.
MatchesEmail(text) ==
    \E p \in 2..Len(text), q \in 3..Len(text) :
        /\ text[p] = "@" /\ NonSpace(text[p - 1])
        /\ q >= p + 2 /\ text[q] = "." /\ q < Len(text) /\ NonSpace(text[q + 1])
        /\ \A k \in (p + 1)..(q - 1) : NonSpace(text[k])
\* /^\+?[\d\s-()]+$/.test(text)
PhoneChar(c) == c \in Digits \cup {" ", "-", "(", ")"}
MatchesPhone(text) ==
    LET rest == IF Len(text) > 0 /\ text[1] = "+" THEN Tail(text) ELSE text
    IN  Len(rest) >= 1 /\ \A i \in 1..Len(rest) : PhoneChar(rest[i])

\* validateForm's newErrors, as the set of the fields that got a message.
validateFormNoPhone(data) ==
    {name \in FieldNames :
        \/ name = "firstName" /\ Blank(data.firstName)
        \/ name = "lastName" /\ Blank(data.lastName)
        \/ name = "email" /\ (Blank(data.email) \/ ~MatchesEmail(data.email))}
validateForm(data) ==
    {name \in FieldNames :
        \/ name = "firstName" /\ Blank(data.firstName)
        \/ name = "lastName" /\ Blank(data.lastName)
        \/ name = "email" /\ (Blank(data.email) \/ ~MatchesEmail(data.email))
        \/ name = "phone" /\ data.phone # <<>> /\ ~MatchesPhone(data.phone)}

EmptyFormData == [firstName |-> <<>>, lastName |-> <<>>, email |-> <<>>, phone |-> <<>>]
InitialForm ==
    [isEditing |-> FALSE, formData |-> EmptyFormData, errors |-> {}, isSaving |-> FALSE]

\* The effect on [user]: formData is rebuilt from the user. The user's names
\* and email are not part of Users, so any text stands for them; the phone is
\* the user's, '' when it has none.
UserFormData(u) ==
    {d \in FormData : d.phone = <<>> <=> u.phone = Undefined}
FormOfUser(f, slot) ==
    IF slot = Null THEN {f}
    ELSE {[f EXCEPT !.formData = d] : d \in UNION {UserFormData(u) : u \in slot}}

Init ==
    /\ cookies \in InitialJars
    /\ user = Null
    /\ isLoading = TRUE
    /\ error = Null
    /\ mounted = FALSE
    /\ inflight = <<>>
    /\ location = HomePath
    /\ form = InitialForm
    /\ reloadPending = FALSE
    /\ last = Step("load", "ok", NoMessage, Null, NoData, NoPush)

\* ------------------------------------------------- AuthProvider: bootstrap

initAuthFinallySkipped(loading) == loading

\* The finally block of initAuth: setIsLoading(false)
initAuthFinally(loading) == FALSE

\* useEffect(initAuth): up to the await of authService.getCurrentUser(), or
\* to the end when the store holds no session.
InitAuth ==
    /\ ~mounted
    /\ mounted' = TRUE
    /\ IF isAuthenticated(cookies)
       THEN /\ user' = getUser(cookies)
            /\ isLoading' = TRUE
            /\ inflight' = Append(inflight, Request("initAuth"))
            /\ last' = Step("initAuth", "start", NoMessage, Null, NoData, NoPush)
       ELSE /\ user' = user
            /\ isLoading' = initAuthFinally(isLoading)
            /\ inflight' = inflight
            /\ last' = Step("initAuth", "ok", NoMessage, Null, NoData, NoPush)
    /\ UNCHANGED <<cookies, error, location, reloadPending>>

\* GET /users/profile answered: getCurrentUser stores the fresh user and
\* initAuth adopts it.
InitAuthFresh(i, u) ==
    /\ Awaiting(i, "initAuth")
    /\ cookies' = setUser(cookies, u)
    /\ user' = Some(u)
    /\ isLoading' = initAuthFinally(isLoading)
    /\ inflight' = RemoveAt(inflight, i)
    /\ last' = Step("initAuth", "ok", NoMessage, Handled(i, "initAuth", OkResponse),
                    [NoData EXCEPT !.user = Some(u)], NoPush)
    /\ UNCHANGED <<error, mounted, location, reloadPending>>

RevalidationFailedUserKept(u) == u

\* The user initAuth holds after its inner catch block: setUser(null)
RevalidationFailedUser(u) == Null

\* GET /users/profile failed: getCurrentUser throws, initAuth clears the store.
InitAuthFailed(i, r) ==
    /\ Awaiting(i, "initAuth")
    /\ Settled(r.status)
    /\ cookies' = clearAuth(interceptor(cookies, r.status))
    /\ user' = RevalidationFailedUser(user)
    /\ isLoading' = initAuthFinally(isLoading)
    /\ inflight' = RemoveAt(inflight, i)
    /\ last' = Step("initAuth", "error", ErrorMessage(r, GetUserFailed),
                    Handled(i, "initAuth", r),
                    NoData, NoPush)
    /\ UNCHANGED <<error, mounted>>

\* ----------------------------------------------------- AuthProvider: login

\* login(email, password) up to the await of authService.login
Login ==
    /\ CanSend
    /\ isLoading' = TRUE
    /\ error' = Null
    /\ inflight' = Append(inflight, Request("login"))
    /\ last' = Step("login", "start", NoMessage, Null, NoData, NoPush)
    /\ UNCHANGED <<cookies, user, mounted, location, reloadPending>>

\* authService.login's three writes, in the order of the code
\* The store after the first k of the three writes of authService.login (and
\* register), in the order of the source: setToken, setRefreshToken, setUser.
StorePrefix(jar, d, k) ==
    CASE k = 0 -> jar
      [] k = 1 -> setToken(jar, d.token)
      [] k = 2 -> setRefreshToken(setToken(jar, d.token), d.refreshToken)
      [] k = 3 -> setUser(setRefreshToken(setToken(jar, d.token), d.refreshToken),
                          d.user)

StoreSessionFirstWins(jar, d) ==
    IF TOKEN_KEY \in DOMAIN jar THEN jar ELSE StorePrefix(jar, d, 3)
StoreSessionUserOnly(jar, d) ==
    setUser(jar, d.user)
StoreSession(jar, d) == StorePrefix(jar, d, 3)

\* The role check of AuthProvider.login
RoleAcceptedAny(u) == TRUE
RoleAccepted(u) == u.role = "admin"

\* POST /auth/login answered 2xx: authService.login stores the session; an
\* admin is adopted and sent to the dashboard, anyone else is logged out
\* (await authService.logout(): a further request).
LoginAnswered(i, d) ==
    /\ Awaiting(i, "login")
    /\ cookies' = StoreSession(cookies, d)
    /\ IF RoleAccepted(d.user)
       THEN /\ user' = Some(d.user)
            /\ location' = DashboardPath
            /\ isLoading' = FALSE
            /\ inflight' = RemoveAt(inflight, i)
            /\ last' = Step("login", "ok", NoMessage, Handled(i, "login", OkResponse),
                            [d EXCEPT !.user = Some(d.user)], DashboardPath)
       ELSE /\ inflight' = Append(RemoveAt(inflight, i), Request("login/logout"))
            /\ last' = Step("login", "pending", NoMessage, Handled(i, "login", OkResponse),
                            [d EXCEPT !.user = Some(d.user)], NoPush)
            /\ UNCHANGED <<user, location, isLoading>>
    /\ UNCHANGED <<error, mounted, reloadPending>>

\* POST /auth/login failed
LoginFailedWith(i, r) ==
    /\ Awaiting(i, "login")
    /\ Settled(r.status)
    /\ cookies' = interceptor(cookies, r.status)
    /\ error' = setError(ErrorMessage(r, LoginFailed))
    /\ isLoading' = FALSE
    /\ inflight' = RemoveAt(inflight, i)
    /\ last' = Step("login", "error", ErrorMessage(r, LoginFailed),
                    Handled(i, "login", r), NoData, NoPush)
    /\ UNCHANGED <<user, mounted>>

\* authService.logout after its POST /auth/logout settled either way: the
\* failure is logged, clearAuth runs in the finally block.
logoutNoFinally(jar, status) ==
    IF status = Ok THEN clearAuth(jar) ELSE interceptor(jar, status)
logout(jar, status) == clearAuth(interceptor(jar, status))

\* How authService.logout() ends for its caller: the catch block logs the
\* failure and does not rethrow.
LogoutOutcomeRethrows(status) == IF status = Ok THEN "ok" ELSE "error"
LogoutOutcome(status) == "ok"

\* The logout of a non-admin login settled: login throws the access-denied
\* error into its own catch block.
LoginDenied(i, status) ==
    /\ Awaiting(i, "login/logout")
    /\ Settled(status)
    /\ cookies' = logout(cookies, status)
    /\ error' = setError(AccessDenied)
    /\ isLoading' = FALSE
    /\ inflight' = RemoveAt(inflight, i)
    /\ last' = Step("login", "error", AccessDenied,
                    Handled(i, "login/logout", Bare(status)), NoData, NoPush)
    /\ UNCHANGED <<user, mounted>>

\* -------------------------------------------------- AuthProvider: register

\* What a caller may pass to register: any role, or none.
RegisterInputs == [role : Roles \cup {Undefined}, phone : Phones]

RegisterBodyAsGiven(userData) == userData

\* The body authService.register posts: { ...userData, role: 'admin' }
RegisterBody(userData) == [userData EXCEPT !.role = "admin"]

\* register(userData) up to the await of authService.register; the step's
\* data is the body of the request.
Register ==
    /\ CanSend
    /\ isLoading' = TRUE
    /\ error' = Null
    /\ inflight' = Append(inflight, Request("register"))
    /\ \E userData \in RegisterInputs :
         last' = Step("register", "start", NoMessage, Null,
                      [NoData EXCEPT !.user = Some(RegisterBody(userData))], NoPush)
    /\ UNCHANGED <<cookies, user, mounted, location, reloadPending>>

\* POST /auth/register answered 2xx: the session is stored and adopted with
\* no role check.
RegisterAnswered(i, d) ==
    /\ Awaiting(i, "register")
    /\ cookies' = StoreSession(cookies, d)
    /\ user' = Some(d.user)
    /\ location' = DashboardPath
    /\ isLoading' = FALSE
    /\ inflight' = RemoveAt(inflight, i)
    /\ last' = Step("register", "ok", NoMessage, Handled(i, "register", OkResponse),
                    [d EXCEPT !.user = Some(d.user)], DashboardPath)
    /\ UNCHANGED <<error, mounted, reloadPending>>

RegisterFailedWith(i, r) ==
    /\ Awaiting(i, "register")
    /\ Settled(r.status)
    /\ cookies' = interceptor(cookies, r.status)
    /\ error' = setError(ErrorMessage(r, RegistrationFailed))
    /\ isLoading' = FALSE
    /\ inflight' = RemoveAt(inflight, i)
    /\ last' = Step("register", "error", ErrorMessage(r, RegistrationFailed),
                    Handled(i, "register", r), NoData, NoPush)
    /\ UNCHANGED <<user, mounted>>

\* ---------------------------------------------------- AuthProvider: logout

Logout ==
    /\ CanSend
    /\ isLoading' = TRUE
    /\ inflight' = Append(inflight, Request("logout"))
    /\ last' = Step("logout", "start", NoMessage, Null, NoData, NoPush)
    /\ UNCHANGED <<cookies, user, error, mounted, location, reloadPending>>

\* What AuthProvider.logout holds once authService.logout() has resolved.
LoggedOutUserKept(u) == u
LoggedOutUser(u) == Null

LoggedOutErrorCleared(slot) == Null

\* The error slot after AuthProvider.logout, which has no setError call.
LoggedOutError(slot) == slot

\* POST /auth/logout settled. When authService.logout() resolves: setUser(null)
\* and router.push('/auth/login'); were it to reject, the catch block would
\* log and skip both. AuthProvider.logout resolves either way.
LogoutSettled(i, status) ==
    /\ Awaiting(i, "logout")
    /\ cookies' = logout(cookies, status)
    /\ reloadPending' = (reloadPending \/ Redirects(status))
    /\ isLoading' = FALSE
    /\ inflight' = RemoveAt(inflight, i)
    /\ IF LogoutOutcome(status) = "ok"
       THEN /\ user' = LoggedOutUser(user)
            /\ location' = LoginPath
            /\ last' = Step("logout", "ok", NoMessage,
                            Handled(i, "logout", Bare(status)), NoData, LoginPath)
       ELSE /\ user' = user
            /\ location' = IF Redirects(status) THEN LoginPath ELSE location
            /\ last' = Step("logout", "ok", NoMessage,
                            Handled(i, "logout", Bare(status)), NoData, NoPush)
    /\ error' = LoggedOutError(error)
    /\ UNCHANGED mounted

\* --------------------------------------------- AuthProvider: updateProfile

UpdateProfile ==
    /\ CanSend
    /\ error' = Null
    /\ inflight' = Append(inflight, Request("updateProfile"))
    /\ last' = Step("updateProfile", "start", NoMessage, Null, NoData, NoPush)
    /\ UNCHANGED <<cookies, user, isLoading, mounted, location, reloadPending>>

\* authService.updateProfile / getCurrentUser on a 2xx response: the user of
\* the response replaces the stored one, nothing else is written.
StoreUserAndToken(jar, u) == setToken(setUser(jar, u), "")
StoreUser(jar, u) == setUser(jar, u)

\* PUT /users/profile answered 2xx
UpdateProfileAnswered(i, u) ==
    /\ Awaiting(i, "updateProfile")
    /\ cookies' = StoreUser(cookies, u)
    /\ user' = Some(u)
    /\ inflight' = RemoveAt(inflight, i)
    /\ last' = Step("updateProfile", "ok", NoMessage,
                    Handled(i, "updateProfile", OkResponse),
                    [NoData EXCEPT !.user = Some(u)], NoPush)
    /\ UNCHANGED <<isLoading, error, mounted, location, reloadPending>>

UpdateProfileFailedWith(i, r) ==
    /\ Awaiting(i, "updateProfile")
    /\ Settled(r.status)
    /\ cookies' = interceptor(cookies, r.status)
    /\ error' = setError(ErrorMessage(r, UpdateFailed))
    /\ inflight' = RemoveAt(inflight, i)
    /\ last' = Step("updateProfile", "error", ErrorMessage(r, UpdateFailed),
                    Handled(i, "updateProfile", r), NoData, NoPush)
    /\ UNCHANGED <<user, isLoading, mounted>>

ClearError ==
    /\ mounted
    /\ error # Null
    /\ error' = Null
    /\ last' = Step("clearError", "ok", NoMessage, Null, NoData, NoPush)
    /\ UNCHANGED <<cookies, user, isLoading, mounted, inflight, location, reloadPending>>

\* ---------------------------------- AuthService called without AuthProvider

CanCall == Len(inflight) < MaxCalls

\* The first half of any call that awaits one request and touches nothing
\* before it.
ServiceRequest(op) ==
    /\ CanCall
    /\ inflight' = Append(inflight, Request(op))
    /\ last' = Step(op, "start", NoMessage, Null, NoData, NoPush)
    /\ UNCHANGED <<cookies, user, isLoading, error, mounted, location, reloadPending>>

\* authService.login(credentials) and authService.register(userData)
SessionOps == {"authService.login", "authService.register"}
SessionFallback(op) ==
    IF op = "authService.login" THEN LoginFailed ELSE RegistrationFailed

SessionAnswered(i, op, d) ==
    /\ op \in SessionOps
    /\ Awaiting(i, op)
    /\ cookies' = StoreSession(cookies, d)
    /\ inflight' = RemoveAt(inflight, i)
    /\ last' = Step(op, "ok", NoMessage, Handled(i, op, OkResponse),
                    [d EXCEPT !.user = Some(d.user)],
                    NoPush)
    /\ UNCHANGED <<user, isLoading, error, mounted, location, reloadPending>>

SessionFailedWith(i, op, r) ==
    /\ op \in SessionOps
    /\ Awaiting(i, op)
    /\ Settled(r.status)
    /\ cookies' = interceptor(cookies, r.status)
    /\ inflight' = RemoveAt(inflight, i)
    /\ last' = Step(op, "error", ErrorMessage(r, SessionFallback(op)), Handled(i, op, r),
                    NoData, NoPush)
    /\ UNCHANGED <<user, isLoading, error, mounted>>

\* authService.logout()
ServiceLogoutSettled(i, status) ==
    /\ Awaiting(i, "authService.logout")
    /\ Settled(status)
    /\ cookies' = logout(cookies, status)
    /\ inflight' = RemoveAt(inflight, i)
    /\ last' = Step("authService.logout", LogoutOutcome(status), NoMessage,
                    Handled(i, "authService.logout", Bare(status)), NoData, NoPush)
    /\ UNCHANGED <<user, isLoading, error, mounted>>

\* authService.clearAuth()
ServiceClearAuth ==
    /\ cookies' = clearAuth(cookies)
    /\ last' = Step("authService.clearAuth", "ok", NoMessage, Null, NoData, NoPush)
    /\ UNCHANGED <<user, isLoading, error, mounted, inflight, location, reloadPending>>

\* The error refreshToken throws inside its own try block when the store
\* holds no refresh token.
NoRefreshToken == "No refresh token available"

RefreshCatchLikeLogin(caught) ==
    IF caught # NoError THEN caught ELSE RefreshFailed

\* The catch block of refreshToken: whatever it caught, it throws a new
\* error with the fixed message.
RefreshCatch(caught) == RefreshFailed

StoreRefreshedRotates(jar, token) == setRefreshToken(setToken(jar, token), token)

\* What refreshToken stores from a 2xx answer: response.data.data.token
StoreRefreshed(jar, token) == setToken(jar, token)

\* authService.refreshToken() up to its await; with no refresh token it
\* throws at once into its own catch block.
RefreshToken ==
    /\ IF getRefreshToken(cookies) = Null
       THEN /\ cookies' = clearAuth(cookies)
            /\ inflight' = inflight
            /\ last' = Step("authService.refreshToken", "error",
                            RefreshCatch(NoRefreshToken), Null, NoData, NoPush)
       ELSE /\ CanCall
            /\ cookies' = cookies
            /\ inflight' = Append(inflight, Request("authService.refreshToken"))
            /\ last' = Step("authService.refreshToken", "start", NoMessage, Null,
                            NoData, NoPush)
    /\ UNCHANGED <<user, isLoading, error, mounted, location, reloadPending>>

\* POST /auth/refresh answered 2xx
RefreshTokenAnswered(i, token) ==
    /\ Awaiting(i, "authService.refreshToken")
    /\ cookies' = StoreRefreshed(cookies, token)
    /\ inflight' = RemoveAt(inflight, i)
    /\ last' = Step("authService.refreshToken", "ok", NoMessage,
                    Handled(i, "authService.refreshToken", OkResponse),
                    [NoData EXCEPT !.token = token], NoPush)
    /\ UNCHANGED <<user, isLoading, error, mounted, location, reloadPending>>

RefreshTokenFailedWith(i, r) ==
    /\ Awaiting(i, "authService.refreshToken")
    /\ Settled(r.status)
    /\ cookies' = clearAuth(interceptor(cookies, r.status))
    /\ inflight' = RemoveAt(inflight, i)
    /\ last' = Step("authService.refreshToken", "error", RefreshCatch(r.error),
                    Handled(i, "authService.refreshToken", r), NoData, NoPush)
    /\ UNCHANGED <<user, isLoading, error, mounted>>

\* authService.getCurrentUser() and authService.updateProfile(userData)
ProfileOps == {"authService.getCurrentUser", "authService.updateProfile"}
ProfileFallback(op) ==
    IF op = "authService.getCurrentUser" THEN GetUserFailed ELSE UpdateFailed

ProfileAnswered(i, op, u) ==
    /\ op \in ProfileOps
    /\ Awaiting(i, op)
    /\ cookies' = StoreUser(cookies, u)
    /\ inflight' = RemoveAt(inflight, i)
    /\ last' = Step(op, "ok", NoMessage, Handled(i, op, OkResponse),
                    [NoData EXCEPT !.user = Some(u)],
                    NoPush)
    /\ UNCHANGED <<user, isLoading, error, mounted, location, reloadPending>>

ProfileFailedWith(i, op, r) ==
    /\ op \in ProfileOps
    /\ Awaiting(i, op)
    /\ Settled(r.status)
    /\ cookies' = interceptor(cookies, r.status)
    /\ inflight' = RemoveAt(inflight, i)
    /\ last' = Step(op, "error", ErrorMessage(r, ProfileFallback(op)), Handled(i, op, r),
                    NoData, NoPush)
    /\ UNCHANGED <<user, isLoading, error, mounted>>

\* authService.forgotPassword(email) and authService.resetPassword(token,
\* password): they store nothing.
PasswordOps == {"authService.forgotPassword", "authService.resetPassword"}
PasswordFallback(op) ==
    IF op = "authService.forgotPassword" THEN ForgotFailed ELSE ResetFailed

PasswordAnswered(i, op) ==
    /\ op \in PasswordOps
    /\ Awaiting(i, op)
    /\ inflight' = RemoveAt(inflight, i)
    /\ last' = Step(op, "ok", NoMessage, Handled(i, op, OkResponse), NoData, NoPush)
    /\ UNCHANGED <<cookies, user, isLoading, error, mounted, location, reloadPending>>

PasswordFailedWith(i, op, r) ==
    /\ op \in PasswordOps
    /\ Awaiting(i, op)
    /\ Settled(r.status)
    /\ cookies' = interceptor(cookies, r.status)
    /\ inflight' = RemoveAt(inflight, i)
    /\ last' = Step(op, "error", ErrorMessage(r, PasswordFallback(op)),
                    Handled(i, op, r), NoData, NoPush)
    /\ UNCHANGED <<user, isLoading, error, mounted>>

\* The calls that start with one request.
RequestOps ==
    SessionOps \cup ProfileOps \cup PasswordOps \cup {"authService.logout"}

\* ------------------------------------------------------------- the browser

\* The document load that the assignment to window.location.href started:
\* the page is torn down with its requests and AuthProvider is built anew.
PageReload ==
    /\ reloadPending
    /\ user' = Null
    /\ isLoading' = TRUE
    /\ error' = Null
    /\ mounted' = FALSE
    /\ inflight' = <<>>
    /\ reloadPending' = FALSE
    /\ last' = Step("load", "ok", NoMessage, Null, NoData, NoPush)
    /\ UNCHANGED <<cookies, location>>

\* -------------------------------------------------------------------- Next

Slots == 1..MaxInflight

\* The application as AuthProvider drives it.
Next ==
    \/ InitAuth /\ UNCHANGED form
    \/ \E i \in Slots, u \in Users : InitAuthFresh(i, u) /\ UNCHANGED form
    \/ \E i \in Slots, r \in ErrorResponses : InitAuthFailed(i, r) /\ UNCHANGED form
    \/ Login /\ UNCHANGED form
    \/ \E i \in Slots, d \in AuthData : LoginAnswered(i, d) /\ UNCHANGED form
    \/ \E i \in Slots, r \in ErrorResponses : LoginFailedWith(i, r) /\ UNCHANGED form
    \/ \E i \in Slots, status \in Statuses : LoginDenied(i, status) /\ UNCHANGED form
    \/ Register /\ UNCHANGED form
    \/ \E i \in Slots, d \in AuthData : RegisterAnswered(i, d) /\ UNCHANGED form
    \/ \E i \in Slots, r \in ErrorResponses : RegisterFailedWith(i, r) /\ UNCHANGED form
    \/ Logout /\ UNCHANGED form
    \/ \E i \in Slots, status \in Statuses : LogoutSettled(i, status) /\ UNCHANGED form
    \/ UpdateProfile /\ UNCHANGED form
    \/ \E i \in Slots, u \in Users : UpdateProfileAnswered(i, u) /\ UNCHANGED form
    \/ \E i \in Slots, r \in ErrorResponses : UpdateProfileFailedWith(i, r) /\ UNCHANGED form
    \/ ClearError /\ UNCHANGED form
    \/ PageReload /\ UNCHANGED form

Spec == Init /\ [][Next]_vars

\* The bootstrap's request settles, one way or the other.
InitAuthSettles ==
    /\ \E i \in Slots :
        \/ \E u \in Users : InitAuthFresh(i, u)
        \/ \E r \in ErrorResponses : InitAuthFailed(i, r)
    /\ UNCHANGED form

\* AuthProvider under the protected pages, which offer logout and the
\* profile update but no login or register form.
BootNext ==
    \/ InitAuth /\ UNCHANGED form
    \/ \E i \in Slots, u \in Users : InitAuthFresh(i, u) /\ UNCHANGED form
    \/ \E i \in Slots, r \in ErrorResponses : InitAuthFailed(i, r) /\ UNCHANGED form
    \/ Logout /\ UNCHANGED form
    \/ \E i \in Slots, status \in Statuses : LogoutSettled(i, status) /\ UNCHANGED form
    \/ UpdateProfile /\ UNCHANGED form
    \/ \E i \in Slots, u \in Users : UpdateProfileAnswered(i, u) /\ UNCHANGED form
    \/ \E i \in Slots, r \in ErrorResponses : UpdateProfileFailedWith(i, r) /\ UNCHANGED form
    \/ PageReload /\ UNCHANGED form

\* The scheduling bootstrap relies on: React runs the effect of a mounted
\* AuthProvider, and the backend request resolves or fails.
LiveSpec ==
    /\ Init /\ [][BootNext]_vars
    /\ WF_vars(InitAuth /\ UNCHANGED form) /\ WF_vars(InitAuthSettles)

CallSlots == 1..MaxCalls

\* AuthService and the api client on their own, called by any code.
ServiceNext ==
    \/ \E op \in RequestOps : ServiceRequest(op) /\ UNCHANGED form
    \/ \E i \in CallSlots, op \in SessionOps, d \in AuthData : SessionAnswered(i, op, d) /\ UNCHANGED form
    \/ \E i \in CallSlots, op \in SessionOps, r \in ErrorResponses :
            SessionFailedWith(i, op, r) /\ UNCHANGED form
    \/ \E i \in CallSlots, status \in Statuses : ServiceLogoutSettled(i, status) /\ UNCHANGED form
    \/ ServiceClearAuth /\ UNCHANGED form
    \/ RefreshToken /\ UNCHANGED form
    \/ \E i \in CallSlots, token \in Tokens : RefreshTokenAnswered(i, token) /\ UNCHANGED form
    \/ \E i \in CallSlots, r \in ErrorResponses : RefreshTokenFailedWith(i, r) /\ UNCHANGED form
    \/ \E i \in CallSlots, op \in ProfileOps, u \in Users : ProfileAnswered(i, op, u) /\ UNCHANGED form
    \/ \E i \in CallSlots, op \in ProfileOps, r \in ErrorResponses :
            ProfileFailedWith(i, op, r) /\ UNCHANGED form
    \/ \E i \in CallSlots, op \in PasswordOps : PasswordAnswered(i, op) /\ UNCHANGED form
    \/ \E i \in CallSlots, op \in PasswordOps, r \in ErrorResponses :
            PasswordFailedWith(i, op, r) /\ UNCHANGED form
    \/ PageReload /\ UNCHANGED form

ServiceSpec == Init /\ [][ServiceNext]_vars

\* ------------------------------------------------------ the protected pages

\* AuthContext's value: isAuthenticated: !!user, isAdmin: user?.role === 'admin'
ctxIsAuthenticated == user # Null
ctxIsAdmin == \E u \in user : u.role = "admin"

\* What a page returns: the spinner, null, or its content.
DashboardViewAnyUser(loading, authenticated, admin) ==
    IF loading THEN "spinner"
    ELSE IF ~authenticated THEN "nothing"
    ELSE "content"
DashboardView(loading, authenticated, admin) ==
    IF loading THEN "spinner"
    ELSE IF ~authenticated \/ ~admin THEN "nothing"
    ELSE "content"
ProfileView(loading, authenticated, admin, slot) ==
    IF loading THEN "spinner"
    ELSE IF ~authenticated \/ ~admin \/ slot = Null THEN "nothing"
    ELSE "content"

\* The guard effect of both pages: the path it pushes, NoPush when it pushes
\* nothing.
GuardTarget(loading, authenticated, admin) ==
    IF ~loading /\ ~authenticated THEN LoginPath
    ELSE IF ~loading /\ ~admin THEN LoginPath
    ELSE NoPush
\* The effect of the home page.
HomeTarget(loading, authenticated, admin) ==
    IF ~loading
    THEN IF authenticated /\ admin THEN DashboardPath ELSE LoginPath
    ELSE NoPush

ProtectedPaths == {DashboardPath, ProfilePath}
EntryPaths == {HomePath, DashboardPath, ProfilePath}

DashboardShown ==
    /\ location = DashboardPath
    /\ DashboardView(isLoading, ctxIsAuthenticated, ctxIsAdmin) = "content"
ProfileShown ==
    /\ location = ProfilePath
    /\ ProfileView(isLoading, ctxIsAuthenticated, ctxIsAdmin, user) = "content"

\* The provider's state outside the page's own.
provider == <<cookies, user, isLoading, error, mounted, inflight, reloadPending>>

\* ProfilePage's effect on [user], which runs when the provider sets a user
\* while the page is mounted.
UserEffect(f, slot) == IF location = ProfilePath THEN FormOfUser(f, slot) ELSE {f}

\* The browser loads any of the three pages.
PageInit ==
    /\ cookies \in InitialJars
    /\ user = Null
    /\ isLoading = TRUE
    /\ error = Null
    /\ mounted = FALSE
    /\ inflight = <<>>
    /\ location \in EntryPaths
    /\ form = InitialForm
    /\ reloadPending = FALSE
    /\ last = Step("load", "ok", NoMessage, Null, NoData, NoPush)

PageInitAuth ==
    /\ InitAuth
    /\ form' \in UserEffect(form, user')

PageInitAuthFresh(i, u) ==
    /\ InitAuthFresh(i, u)
    /\ form' \in UserEffect(form, user')

PageInitAuthFailed(i, r) ==
    /\ InitAuthFailed(i, r)
    /\ form' = form

HomeEffect ==
    /\ location = HomePath
    /\ ~reloadPending
    /\ HomeTarget(isLoading, ctxIsAuthenticated, ctxIsAdmin) # NoPush
    /\ location' = HomeTarget(isLoading, ctxIsAuthenticated, ctxIsAdmin)
    /\ last' = Step("home", "ok", NoMessage, Null, NoData, location')
    /\ UNCHANGED <<provider, form>>

\* The push unmounts the page: the form's state is gone.
GuardEffect ==
    /\ location \in ProtectedPaths
    /\ ~reloadPending
    /\ GuardTarget(isLoading, ctxIsAuthenticated, ctxIsAdmin) # NoPush
    /\ location' = GuardTarget(isLoading, ctxIsAuthenticated, ctxIsAdmin)
    /\ form' = InitialForm
    /\ last' = Step("guard", "ok", NoMessage, Null, NoData, location')
    /\ UNCHANGED provider

\* The dashboard's link to /profile: ProfilePage mounts with a user in the
\* context, so its effect on [user] fills the form.
OpenProfile ==
    /\ DashboardShown
    /\ ~reloadPending
    /\ location' = ProfilePath
    /\ form' \in FormOfUser(InitialForm, user)
    /\ last' = Step("link", "ok", NoMessage, Null, NoData, ProfilePath)
    /\ UNCHANGED provider

\* The Edit button, shown while the form is not being edited.
StartEditing ==
    /\ ProfileShown
    /\ ~form.isEditing
    /\ form' = [form EXCEPT !.isEditing = TRUE]
    /\ last' = Step("edit", "ok", NoMessage, Null, NoData, NoPush)
    /\ UNCHANGED <<provider, location>>

\* The inputs exist while editing; a change clears the field's message.
handleInputChange(d) ==
    /\ ProfileShown
    /\ form.isEditing
    /\ \E name \in FieldNames :
        /\ \A other \in FieldNames \ {name} : d[other] = form.formData[other]
        /\ d[name] # form.formData[name]
        /\ form' = [form EXCEPT !.formData = d, !.errors = @ \ {name}]
    /\ last' = Step("handleInputChange", "ok", NoMessage, Null, NoData, NoPush)
    /\ UNCHANGED <<provider, location>>

handleCancel ==
    /\ ProfileShown
    /\ form.isEditing
    /\ form' \in {[f EXCEPT !.isEditing = FALSE, !.errors = {}] : f \in FormOfUser(form, user)}
    /\ last' = Step("handleCancel", "ok", NoMessage, Null, NoData, NoPush)
    /\ UNCHANGED <<provider, location>>

\* handleSave up to its await: the Save button is shown while editing and
\* disabled while saving. A form that fails validation gets its messages and
\* nothing else happens.
handleSave ==
    /\ ProfileShown
    /\ form.isEditing
    /\ ~form.isSaving
    /\ IF validateForm(form.formData) = {}
       THEN /\ UpdateProfile
            /\ form' = [form EXCEPT !.errors = {}, !.isSaving = TRUE]
       ELSE /\ form' = [form EXCEPT !.errors = validateForm(form.formData)]
            /\ last' = Step("handleSave", "error", NoMessage, Null, NoData, NoPush)
            /\ UNCHANGED <<provider, location>>

\* handleSave after the await resolved: the provider set the user (which
\* refills the form), then setIsEditing(false), then the finally block.
handleSaveFinally(saving) == FALSE

handleSaveResolved(i, u) ==
    /\ UpdateProfileAnswered(i, u)
    /\ form' \in UserEffect([form EXCEPT !.isEditing = FALSE,
                                         !.isSaving = handleSaveFinally(@)], user')

\* handleSave after the await rejected: the catch logs, then the finally block.
handleSaveRejected(i, r) ==
    /\ UpdateProfileFailedWith(i, r)
    /\ form' = [form EXCEPT !.isSaving = handleSaveFinally(@)]

\* The document load drops every component's state.
PageLoad ==
    /\ PageReload
    /\ form' = InitialForm

PageNext ==
    \/ PageInitAuth
    \/ \E i \in Slots, u \in Users : PageInitAuthFresh(i, u)
    \/ \E i \in Slots, r \in ErrorResponses : PageInitAuthFailed(i, r)
    \/ HomeEffect
    \/ GuardEffect
    \/ OpenProfile
    \/ StartEditing
    \/ \E d \in FormData : handleInputChange(d)
    \/ handleCancel
    \/ handleSave
    \/ \E i \in Slots, u \in Users : handleSaveResolved(i, u)
    \/ \E i \in Slots, r \in ErrorResponses : handleSaveRejected(i, r)
    \/ PageLoad

PageSpec == PageInit /\ [][PageNext]_vars

\* ------------------------------------------------------------- properties

\* The requests of one kind in flight; a step settles a kind when it handles
\* the response of one of its requests (a page load drops them unanswered).
PendingOf(q, op) == {i \in 1..Len(q) : q[i].op = op}
Settles(op) ==
    /\ Cardinality(PendingOf(inflight', op)) < Cardinality(PendingOf(inflight, op))
    /\ last'.op # "load"
Finished(step, op) == step.op = op /\ step.outcome \in {"ok", "error"}
StoreEmpty(jar) == DOMAIN jar = {}

\* C1: a login answered with a user whose role is not admin is never adopted:
\* it goes on to the logout request, and when that request settles, with any
\* status, the login rejects with the access-denied message and the store
\* holds none of the three cookies, so isAuthenticated() is false.
C1_NonAdminLoginDenied ==
    [][/\ (last'.op = "login" /\ \E u \in last'.data.user : u.role # "admin")
            => /\ last'.outcome = "pending"
               /\ \E i \in 1..Len(inflight') : inflight'[i].op = "login/logout"
       /\ Settles("login/logout")
            => /\ Finished(last', "login")
               /\ last'.outcome = "error"
               /\ last'.message = AccessDenied
               /\ error' = Some(AccessDenied)
               /\ StoreEmpty(cookies')
               /\ ~isAuthenticated(cookies')]_vars

\* C1 witness: a non-admin login rejected although its logout request failed.
C1_Witness ==
    /\ Finished(last, "login")
    /\ last.message = AccessDenied
    /\ \E h \in last.handled : h.request = "login/logout" /\ h.status = ServerError
    /\ StoreEmpty(cookies)

\* C2: right after a login that succeeded with an admin user the three
\* cookies hold the token, the refresh token and the user of the response,
\* and isAuthenticated() and isAdmin() are true.
C2_AdminLoginStored ==
    (last.op = "login" /\ last.outcome = "ok")
        => /\ Keys \subseteq DOMAIN cookies
           /\ cookies[TOKEN_KEY] = last.data.token
           /\ cookies[REFRESH_TOKEN_KEY] = last.data.refreshToken
           /\ getUser(cookies) = last.data.user
           /\ last.data.token \in Tokens
           /\ last.data.refreshToken \in RefreshTokens
           /\ \E u \in last.data.user : u.role = "admin"
           /\ isAuthenticated(cookies)
           /\ isAdmin(cookies)

\* C2 witness: an admin login succeeded with a user that has a phone.
C2_Witness ==
    /\ last.op = "login"
    /\ last.outcome = "ok"
    /\ \E u \in getUser(cookies) : u.phone # Undefined
    /\ cookies[TOKEN_KEY] = "t2"

\* C3: after a step that handled a 401 response, of whichever request,
\* isAuthenticated() is false and the browser is at the login page.
C3_UnauthorizedEndsSession ==
    (\E h \in last.handled : h.status = Unauthorized)
        => /\ ~isAuthenticated(cookies)
           /\ location = LoginPath

\* C3 witness: a profile update was answered 401 (the refresh token, which
\* the interceptor leaves, shows the store held a session).
C3_Witness ==
    /\ \E h \in last.handled :
            h.status = Unauthorized /\ h.request = "authService.updateProfile"
    /\ REFRESH_TOKEN_KEY \in DOMAIN cookies
    /\ location = LoginPath

\* C4: whenever the request of an AuthProvider logout settles, with any
\* status, the logout completes with no user held, an empty store and a
\* router.push to the login page.
C4_LogoutEndsAnonymous ==
    [][Settles("logout")
        => /\ Finished(last', "logout")
           /\ user' = Null
           /\ StoreEmpty(cookies')
           /\ last'.push = LoginPath
           /\ location' = LoginPath]_vars

\* C4 witness: a logout completed although its request got no response.
C4_Witness ==
    /\ Finished(last, "logout")
    /\ \E h \in last.handled : h.status = NoResponse
    /\ user = Null
    /\ StoreEmpty(cookies)
    /\ location = LoginPath

\* C5: authService.logout() resolves, and leaves the store empty, whatever
\* became of its request.
C5_ServiceLogoutSwallows ==
    (last.op = "authService.logout" /\ last.handled # Null)
        => /\ last.outcome = "ok"
           /\ StoreEmpty(cookies)

\* C5 witness: authService.logout() resolved after its request failed.
C5_Witness ==
    /\ last.op = "authService.logout"
    /\ \E h \in last.handled : h.status = ServerError
    /\ last.outcome = "ok"
    /\ StoreEmpty(cookies)

\* C6: on every store, clearAuth and logout leave all three keys absent, and
\* applying them a second time changes nothing; so does the store look after
\* either ran.
ClearOps == {"authService.clearAuth", "authService.logout"}
C6_ClearIdempotent ==
    /\ StoreEmpty(clearAuth(cookies))
    /\ clearAuth(clearAuth(cookies)) = clearAuth(cookies)
    /\ \A s1, s2 \in Statuses :
        /\ StoreEmpty(logout(cookies, s1))
        /\ logout(logout(cookies, s1), s2) = logout(cookies, s1)
    /\ (last.op \in ClearOps /\ last.outcome = "ok") => StoreEmpty(cookies)

\* C6 witness: clearAuth ran, and running it again leaves the store as it is.
C6_Witness ==
    /\ last.op = "authService.clearAuth"
    /\ StoreEmpty(cookies)
    /\ clearAuth(cookies) = cookies

\* C7: getUser() after setUser(u) is u, for every user record; and getUser()
\* is null when the user cookie is absent or holds a text that is the
\* serialization of no user.
C7_UserRoundTrip ==
    /\ \A u \in Users : getUser(setUser(cookies, u)) = Some(u)
    /\ (USER_KEY \notin DOMAIN cookies) => getUser(cookies) = Null
    /\ \A x \in CookiesGet(cookies, USER_KEY) :
        /\ getUser(cookies) = {u \in Users : x = Stringify(u)}
        /\ x \in {EmptyString, Corrupt} => getUser(cookies) = Null

\* C7 witness: getCurrentUser stored a user with a phone and getUser() reads
\* that user back.
C7_Witness ==
    /\ last.op = "authService.getCurrentUser"
    /\ last.outcome = "ok"
    /\ getUser(cookies) = last.data.user
    /\ \E u \in getUser(cookies) : u.phone # Undefined

\* C8: isAuthenticated() is true exactly when the token cookie holds a
\* non-empty value and the user cookie holds the serialization of a user;
\* setting or removing the refresh token does not change it.
C8_AuthenticatedIffTokenAndUser ==
    /\ isAuthenticated(cookies)
        <=> /\ TOKEN_KEY \in DOMAIN cookies
            /\ cookies[TOKEN_KEY] # ""
            /\ USER_KEY \in DOMAIN cookies
            /\ \E u \in Users : cookies[USER_KEY] = Stringify(u)
    /\ isAuthenticated(CookiesRemove(cookies, REFRESH_TOKEN_KEY))
        = isAuthenticated(cookies)
    /\ \A r \in RefreshTokens :
        isAuthenticated(setRefreshToken(cookies, r)) = isAuthenticated(cookies)

\* C8 witness: a session without refresh token is authenticated.
C8_Witness ==
    /\ isAuthenticated(cookies)
    /\ REFRESH_TOKEN_KEY \notin DOMAIN cookies
    /\ last.op = "authService.getCurrentUser"
    /\ last.outcome = "ok"

\* C9: when the login request of a provider that holds no user fails with a
\* body {error: m}, the login rejects with the message m, which is also put
\* in the error slot; the provider still holds no user, no cookie is written
\* (a 401 removes the token and the user cookie, any other status leaves the
\* store as it was) and nothing navigates to the dashboard.
C9_LoginErrorVerbatim ==
    [][(/\ user = Null
        /\ last'.op = "login"
        /\ \E h \in last'.handled : h.request = "login" /\ h.error \in BackendErrors)
        => /\ last'.outcome = "error"
           /\ \E h \in last'.handled : last'.message = h.error
           /\ error' = Some(last'.message)
           /\ user' = Null
           /\ \A k \in DOMAIN cookies' : k \in DOMAIN cookies /\ cookies'[k] = cookies[k]
           /\ (\E h \in last'.handled : h.status # Unauthorized) => cookies' = cookies
           /\ last'.push # DashboardPath
           /\ location' \in {location, LoginPath}]_vars

\* C9 witness: a login was rejected with the backend's message.
C9_Witness ==
    /\ last.op = "login"
    /\ last.outcome = "error"
    /\ last.message = "Invalid credentials"
    /\ error = Some("Invalid credentials")
    /\ user = Null
    /\ location = HomePath

\* C10: a successful updateProfile puts the user of the response in the user
\* cookie and in the provider, and leaves the token and the refresh token
\* cookies as they were.
C10_UpdateProfileFrame ==
    [][(last'.op = "updateProfile" /\ last'.outcome = "ok")
        => /\ last'.data.user # Null
           /\ getUser(cookies') = last'.data.user
           /\ user' = last'.data.user
           /\ CookiesGet(cookies', TOKEN_KEY) = CookiesGet(cookies, TOKEN_KEY)
           /\ CookiesGet(cookies', REFRESH_TOKEN_KEY)
                = CookiesGet(cookies, REFRESH_TOKEN_KEY)]_vars

\* C10 witness: a profile update succeeded on an authenticated session.
C10_Witness ==
    /\ last.op = "updateProfile"
    /\ last.outcome = "ok"
    /\ user = last.data.user
    /\ isAuthenticated(cookies)
    /\ REFRESH_TOKEN_KEY \in DOMAIN cookies
    /\ \E u \in user : u.phone = "+1-555-0000"

\* C11: a refreshToken() call that finds no refresh token in the store issues
\* no request and fails at once, and one whose request is rejected or gets no
\* response fails too; either way the message raised is the fixed 'Token
\* refresh failed', never the backend's, and the store then holds none of the
\* three cookies.
C11_RefreshFailurePurges ==
    [][last'.op = "authService.refreshToken" =>
         /\ (last'.handled = Null /\ getRefreshToken(cookies) = Null)
              => /\ inflight' = inflight
                 /\ last'.outcome = "error"
         /\ (last'.handled = Null /\ getRefreshToken(cookies) # Null)
              => /\ last'.outcome = "start"
                 /\ Len(inflight') = Len(inflight) + 1
         /\ (\E h \in last'.handled : h.status # Ok)
              => last'.outcome = "error"
         /\ last'.outcome = "error"
              => /\ last'.message = "Token refresh failed"
                 /\ StoreEmpty(cookies')]_vars

\* C11 witness: a refresh rejected with a backend message, raised under the
\* fixed message with the store emptied.
C11_Witness ==
    /\ last.op = "authService.refreshToken"
    /\ last.outcome = "error"
    /\ \E h \in last.handled : h.error \in BackendErrors
    /\ last.message = RefreshFailed
    /\ StoreEmpty(cookies)

\* C12: a successful refreshToken() changes the access token only: the
\* refresh token and the user cookie are what they were; a successful
\* getCurrentUser() or updateProfile() changes the user cookie only: both
\* tokens are what they were.
C12_SuccessFrames ==
    [][/\ (last'.op = "authService.refreshToken" /\ last'.outcome = "ok")
            => /\ getToken(cookies') = Some(last'.data.token)
               /\ CookiesGet(cookies', REFRESH_TOKEN_KEY)
                    = CookiesGet(cookies, REFRESH_TOKEN_KEY)
               /\ CookiesGet(cookies', USER_KEY) = CookiesGet(cookies, USER_KEY)
       /\ (last'.op \in ProfileOps /\ last'.outcome = "ok")
            => /\ getUser(cookies') = last'.data.user
               /\ CookiesGet(cookies', TOKEN_KEY) = CookiesGet(cookies, TOKEN_KEY)
               /\ CookiesGet(cookies', REFRESH_TOKEN_KEY)
                    = CookiesGet(cookies, REFRESH_TOKEN_KEY)]_vars

\* C12 witness: a refresh that replaced the access token of a store whose
\* user cookie holds a user.
C12_Witness ==
    /\ last.op = "authService.refreshToken"
    /\ last.outcome = "ok"
    /\ getToken(cookies) = Some(last.data.token)
    /\ getRefreshToken(cookies) # Null
    /\ getRefreshToken(cookies) # getToken(cookies)
    /\ getUser(cookies) # Null

\* C13 as stated: whenever getCurrentUser() fails, whatever the failure and
\* the response status, the access token and the refresh token in the store
\* are what they were before the call, and the message raised is the
\* backend's when the response carries one.
C13_FailureLeavesTokens ==
    [][(last'.op = "authService.getCurrentUser" /\ last'.outcome = "error")
         => /\ CookiesGet(cookies', TOKEN_KEY) = CookiesGet(cookies, TOKEN_KEY)
            /\ CookiesGet(cookies', REFRESH_TOKEN_KEY)
                 = CookiesGet(cookies, REFRESH_TOKEN_KEY)
            /\ \A h \in last'.handled :
                 h.error # NoError => last'.message = h.error]_vars

\* C13 amended: whenever getCurrentUser() fails, the refresh token in the
\* store is what it was and the message raised is the backend's when the
\* response carries one, else 'Failed to get user profile'; the access token
\* is what it was unless the response status is 401, and on a 401 the store
\* holds neither access token nor user cookie afterwards.
C13_FailureLeavesTokensUnless401 ==
    [][(last'.op = "authService.getCurrentUser" /\ last'.outcome = "error")
         => /\ CookiesGet(cookies', REFRESH_TOKEN_KEY)
                 = CookiesGet(cookies, REFRESH_TOKEN_KEY)
            /\ \A h \in last'.handled :
                 /\ h.error # NoError => last'.message = h.error
                 /\ h.error = NoError => last'.message = "Failed to get user profile"
                 /\ h.status # Unauthorized
                      => /\ CookiesGet(cookies', TOKEN_KEY)
                              = CookiesGet(cookies, TOKEN_KEY)
                         /\ CookiesGet(cookies', USER_KEY)
                              = CookiesGet(cookies, USER_KEY)
                 /\ h.status = Unauthorized
                      => /\ TOKEN_KEY \notin DOMAIN cookies'
                         /\ USER_KEY \notin DOMAIN cookies']_vars

\* C13 witness: getCurrentUser rejected with a 401 that carries a backend
\* message, in a store that keeps its refresh token and has lost the rest.
C13_Witness ==
    /\ last.op = "authService.getCurrentUser"
    /\ last.outcome = "error"
    /\ \E h \in last.handled :
         /\ h.status = Unauthorized
         /\ h.error \in BackendErrors
         /\ last.message = h.error
    /\ DOMAIN cookies = {REFRESH_TOKEN_KEY}

\* The steps that purge the session: a logout or clearAuth() that finished, a
\* refreshToken() that failed, and any response with status 401.
Purged(step) ==
    \/ Finished(step, "authService.logout")
    \/ Finished(step, "authService.clearAuth")
    \/ (step.op = "authService.refreshToken" /\ step.outcome = "error")
    \/ \E h \in step.handled : h.status = Unauthorized

\* C14 as stated: the three parts of the session are invalidated together:
\* after any purge (logout, clearAuth, a failed refresh, the handling of a
\* 401) the store holds neither access token nor refresh token nor user; no
\* purge removes some of them and leaves another.
C14_PurgedTogether ==
    Purged(last) => StoreEmpty(cookies)

C16_BootstrapEndsNonAdminSession ==
    [][(/\ Settles("initAuth")
        /\ isAuthenticated(cookies)
        /\ \E u \in getUser(cookies) : u.role # "admin"
        /\ \A u \in last'.data.user : u.role # "admin")
         => /\ Finished(last', "initAuth")
            /\ user' = Null
            /\ StoreEmpty(cookies')]_vars

\* The operations of the context that record their failure.
RecordingOps == {"login", "register", "updateProfile"}

\* C17: a login, register or updateProfile of the context that has just
\* started has set the error slot to none, and one whose request failed (or,
\* for login, whose user was denied) has rejected with the error it caught
\* and the error slot holds that error's message.
C17_FailureRecorded ==
    last.op \in RecordingOps =>
        /\ last.outcome = "start" => error = Null
        /\ (\E h \in last.handled : h.status # Ok /\ h.request = last.op)
             => last.outcome = "error"
        /\ last.outcome = "error"
             => /\ last.message # NoMessage
                /\ error = Some(last.message)

\* C17 witness: an updateProfile rejected with the backend's message, which
\* the error slot now holds.
C17_Witness ==
    /\ last.op = "updateProfile"
    /\ last.outcome = "error"
    /\ last.message \in BackendErrors
    /\ error = Some(last.message)

\* C18: a logout of the context never rejects and never writes the error
\* slot: neither its start nor the settling of its request, with any status,
\* changes the slot, and when the request has settled the logout has
\* resolved with the store empty and no user in the context.
C18_LogoutKeepsErrorSlot ==
    [][last'.op = "logout" =>
         /\ error' = error
         /\ last'.outcome \in {"start", "ok"}
         /\ last'.message = NoMessage
         /\ Settles("logout")
              => /\ last'.outcome = "ok"
                 /\ StoreEmpty(cookies')
                 /\ user' = Null]_vars

\* C18 witness: a logout resolved after its request failed on the server,
\* with the message of an earlier failure still in the error slot.
C18_Witness ==
    /\ Finished(last, "logout")
    /\ \E h \in last.handled : h.status = ServerError
    /\ error # Null
    /\ user = Null
    /\ StoreEmpty(cookies)

\* The fixed message of each AuthService operation that calls the backend
\* and can raise.
FallbackOf(op) ==
    CASE op = "authService.login" -> "Login failed"
      [] op = "authService.register" -> "Registration failed"
      [] op = "authService.forgotPassword" -> "Failed to send reset email"
      [] op = "authService.resetPassword" -> "Failed to reset password"
      [] op = "authService.refreshToken" -> "Token refresh failed"
      [] op = "authService.getCurrentUser" -> "Failed to get user profile"
      [] op = "authService.updateProfile" -> "Failed to update profile"

C20_RevalidationFailurePurges ==
    last.op = "initAuth" =>
        /\ last.outcome = "start"
             => /\ isAuthenticated(cookies)
                /\ user = getUser(cookies)
                /\ user # Null
        /\ (\E h \in last.handled : h.status # Ok)
             => /\ last.outcome = "error"
                /\ StoreEmpty(cookies)
                /\ user = Null
                /\ ~isLoading

\* C20 witness: the revalidation of a stored session got no response and the
\* bootstrap ended with an empty store and no user.
C20_Witness ==
    /\ last.op = "initAuth"
    /\ last.outcome = "error"
    /\ \E h \in last.handled : h.status = NoResponse
    /\ StoreEmpty(cookies)
    /\ user = Null
    /\ ~isLoading

\* C21: bootstrap always leaves the loading state. A context that was just
\* created reaches isLoading = false, unless a 401 has sent the browser away
\* first; a bootstrap that finds no session ends at once, without a request,
\* with the store as it was and no user; one whose revalidation succeeds ends
\* holding the fresh user; every settling of the revalidation, failed or not,
\* ends with isLoading false.
C21_BootstrapLeavesLoading ==
    /\ (last.op = "load") ~> (~isLoading \/ reloadPending)
    /\ [][last'.op = "initAuth" =>
            /\ (last'.handled = Null /\ ~isAuthenticated(cookies))
                 => /\ Finished(last', "initAuth")
                    /\ ~isLoading'
                    /\ user' = Null
                    /\ inflight' = inflight
                    /\ cookies' = cookies
            /\ last'.handled # Null
                 => /\ Finished(last', "initAuth")
                    /\ ~isLoading'
            /\ (last'.handled # Null /\ last'.outcome = "ok")
                 => /\ user' = last'.data.user
                    /\ user' # Null]_vars

\* C21 witness: a bootstrap that adopted the fresh user of a successful
\* revalidation and left the loading state.
C21_Witness ==
    /\ last.op = "initAuth"
    /\ last.outcome = "ok"
    /\ last.handled # Null
    /\ user = last.data.user
    /\ user # Null
    /\ ~isLoading

\* C22 as stated: while a login of the context is pending (its login request,
\* or the logout request of its role check, is in flight) isLoading is true,
\* whatever other operation of the context started or finished meanwhile.
C22_LoadingWhileLoginPending ==
    (PendingOf(inflight, "login") \cup PendingOf(inflight, "login/logout") # {})
        => isLoading

\* C23 as stated: authService.login writes access token, refresh token and
\* user in this order, and whatever the store held when the response arrived,
\* the store after only the first or only the first two of the writes does
\* not count as a session: isAuthenticated() is false.
C23_PartialLoginNotAuthenticated ==
    [][(last'.op = "authService.login" /\ last'.outcome = "ok")
         => \A u \in last'.data.user :
              LET d == [last'.data EXCEPT !.user = u]
              IN  /\ cookies' = StorePrefix(cookies, d, 3)
                  /\ \A k \in {1, 2} : ~isAuthenticated(StorePrefix(cookies, d, k))]_vars

\* C24: responses are applied as they arrive, not as their requests were
\* issued: a response handled right after the response of a request issued
\* later is applied in full all the same, so that after a late login the
\* store's tokens and user and the context's user are the late response's,
\* and after a late updateProfile or bootstrap revalidation the stored user
\* and the context's user are.
C24_LateResponseApplied ==
    \A h \in last.handled :
        (h.late /\ last.outcome = "ok") =>
            /\ last.op = "login"
                 => /\ getToken(cookies) = Some(last.data.token)
                    /\ getRefreshToken(cookies) = Some(last.data.refreshToken)
                    /\ getUser(cookies) = last.data.user
                    /\ user = last.data.user
            /\ last.op \in {"updateProfile", "initAuth"}
                 => /\ getUser(cookies) = last.data.user
                    /\ user = last.data.user

\* C24 witness: a login whose response was handled after the response of a
\* request issued later, and whose token and user are the ones stored and
\* held.
C24_Witness ==
    /\ last.op = "login"
    /\ last.outcome = "ok"
    /\ \E h \in last.handled : h.late
    /\ getToken(cookies) = Some(last.data.token)
    /\ getUser(cookies) = last.data.user
    /\ user = last.data.user
    /\ inflight = <<>>

\* C25: a login of the context that succeeds leaves the context holding an
\* admin user, with isLoading false, and makes one router.push, to
\* /dashboard; a login that has started, awaits the logout of its role check,
\* failed or was denied has pushed nothing.
C25_LoginNavigatesOnce ==
    last.op = "login" =>
        /\ last.outcome = "ok"
             => /\ last.push = DashboardPath
                /\ location = DashboardPath
                /\ user = last.data.user
                /\ \E u \in user : u.role = "admin"
                /\ ~isLoading
        /\ last.outcome # "ok" => last.push = NoPush
        /\ (\E u \in last.data.user : u.role # "admin") => last.outcome # "ok"

\* C25 witness: an admin's login that ended on the dashboard.
C25_Witness ==
    /\ last.op = "login"
    /\ last.outcome = "ok"
    /\ last.push = DashboardPath
    /\ location = DashboardPath
    /\ \E u \in user : u.role = "admin"

\* C26: the body a register of the context posts has role admin whatever
\* role its caller passed; when the register succeeds the store holds the
\* token, the refresh token and the user of the response, the context holds
\* that user whatever its role, and the one router.push goes to /dashboard.
C26_RegisterAdopts ==
    last.op = "register" =>
        /\ last.outcome = "start"
             => /\ last.data.user # Null
                /\ \A body \in last.data.user : body.role = "admin"
        /\ last.outcome = "ok"
             => /\ getToken(cookies) = Some(last.data.token)
                /\ getRefreshToken(cookies) = Some(last.data.refreshToken)
                /\ getUser(cookies) = last.data.user
                /\ user = last.data.user
                /\ user # Null
                /\ last.push = DashboardPath
                /\ location = DashboardPath

\* C26 witness: a register answered with a user who is not an admin, whom
\* the context holds on the dashboard.
C26_Witness ==
    /\ last.op = "register"
    /\ last.outcome = "ok"
    /\ user = last.data.user
    /\ \E u \in user : u.role # "admin"
    /\ isAuthenticated(cookies)
    /\ location = DashboardPath

\* C28 as stated: a logout is not undone by a late response: the response of
\* an updateProfile or of the bootstrap's revalidation that is handled right
\* after a logout of the context completed (so that its request was issued
\* before the logout resolved) leaves the context without a user and the
\* store empty.
C28_LogoutNotUndone ==
    [][(/\ Finished(last, "logout")
        /\ user = Null
        /\ StoreEmpty(cookies)
        /\ last'.op \in {"updateProfile", "initAuth"}
        /\ last'.handled # Null)
         => /\ user' = Null
            /\ StoreEmpty(cookies')]_vars

\* C29 as stated, for the case it singles out: when a login of the context
\* has been rejected for its user's role, no operation is in flight and no
\* page load is pending, the context holds a user exactly if
\* isAuthenticated() is true.
C29_ContextAgreesWithStore ==
    (/\ last.op = "login"
     /\ last.outcome = "error"
     /\ last.message = AccessDenied
     /\ inflight = <<>>
     /\ ~reloadPending)
        => (user # Null <=> isAuthenticated(cookies))

\* C27: the dashboard and the profile page render their content only when
\* isLoading is false and the context holds a user whose role is 'admin';
\* whenever isLoading is false and there is no user or the user is not an
\* admin they render nothing and their guard effect pushes /auth/login (on a
\* protected page that push is then enabled); while isLoading is true they
\* render no content and push nothing. A guard push happens only from such a
\* state and only to /auth/login.
ContextAdmin == user # Null /\ \A u \in user : u.role = "admin"
ProtectedViews ==
    {DashboardView(isLoading, ctxIsAuthenticated, ctxIsAdmin),
     ProfileView(isLoading, ctxIsAuthenticated, ctxIsAdmin, user)}
C27_ProtectedPagesGuarded ==
    /\ [](/\ "content" \in ProtectedViews => ~isLoading /\ ContextAdmin
          /\ ~isLoading /\ ~ContextAdmin =>
                /\ ProtectedViews = {"nothing"}
                /\ GuardTarget(isLoading, ctxIsAuthenticated, ctxIsAdmin) = LoginPath
                /\ location \in ProtectedPaths /\ ~reloadPending => ENABLED GuardEffect
          /\ isLoading =>
                /\ "content" \notin ProtectedViews
                /\ GuardTarget(isLoading, ctxIsAuthenticated, ctxIsAdmin) = NoPush
                /\ ~ENABLED GuardEffect)
    /\ [][last'.op = "guard" =>
            /\ location \in ProtectedPaths /\ ~isLoading /\ ~ContextAdmin
            /\ location' = LoginPath /\ last'.push = LoginPath]_vars
\* A customer's session was revalidated on a protected page, which rendered
\* nothing and pushed /auth/login.
C27_Witness ==
    /\ last.op = "guard"
    /\ location = LoginPath
    /\ ~isLoading
    /\ \E u \in user : u.role = "customer"

\* The requests always settle (the api client has a 10 s timeout), so a save
\* that awaits its response gets it.
handleSaveSettles ==
    \/ \E i \in Slots, u \in Users : handleSaveResolved(i, u)
    \/ \E i \in Slots, r \in ErrorResponses : handleSaveRejected(i, r)
PageLiveSpec == PageSpec /\ WF_vars(handleSaveSettles)

\* C30: handleSave calls updateProfile exactly when the form is valid (first
\* name, last name and email not blank, the email matching the address
\* pattern, the phone empty or matching the phone pattern); with an invalid
\* form it issues no request, stays in edit mode and is not saving. While
\* isSaving is true the save's request is pending, and isSaving becomes false
\* again; the step that settles the save sets isSaving to false and leaves
\* edit mode if updateProfile succeeded, and leaves isEditing as it was if
\* updateProfile failed.
FormValid(d) ==
    /\ ~Blank(d.firstName) /\ ~Blank(d.lastName) /\ ~Blank(d.email)
    /\ MatchesEmail(d.email)
    /\ d.phone = <<>> \/ MatchesPhone(d.phone)
SavePending == \E i \in 1..Len(inflight) : inflight[i].op = "updateProfile"
C30_SaveGatedAndSettles ==
    /\ [][/\ last'.op = "updateProfile" /\ last'.outcome = "start" =>
                /\ FormValid(form.formData)
                /\ form.isEditing /\ form'.isEditing /\ form'.isSaving
                /\ inflight' = Append(inflight, Request("updateProfile"))
          /\ last'.op = "handleSave" =>
                /\ ~FormValid(form.formData)
                /\ inflight' = inflight
                /\ form.isEditing /\ form'.isEditing /\ ~form'.isSaving
          /\ last'.op = "updateProfile" /\ last'.outcome = "ok" =>
                ~form'.isSaving /\ ~form'.isEditing
          /\ last'.op = "updateProfile" /\ last'.outcome = "error" =>
                ~form'.isSaving /\ form'.isEditing = form.isEditing]_vars
    /\ [](form.isSaving => SavePending)
    /\ (form.isSaving ~> ~form.isSaving)
\* A save was rejected by the backend: the form is still being edited and is
\* no longer saving.
C30_Witness ==
    /\ last.op = "updateProfile"
    /\ last.outcome = "error"
    /\ form.isEditing
    /\ ~form.isSaving
    /\ location = ProfilePath

====
